---------------------------- MODULE Spec2Model ----------------------------
(***************************************************************************)
(* A model of the RockAuto scraper: the two streaming HTML extractors of   *)
(* rockauto/parsers.py, the facade of rockauto/scraper.py and the request  *)
(* handlers of app/main.py.                                                *)
(*                                                                         *)
(* Python strings are sequences of one-character strings.  An Optional[str]*)
(* that is None is the one-element sequence None, which is no string of    *)
(* the model's alphabet.  An Optional record (current_row) is a sequence   *)
(* of length at most one: <<>> is None, <<r>> is the record r.             *)
(***************************************************************************)
EXTENDS Integers, Sequences, FiniteSets, TLC

None == <<"None">>

\* Python truthiness of an Optional[str]: neither None nor "".
Truthy(s) == s # None /\ s # <<>>

-----------------------------------------------------------------------------
(* Characters and strings *)

Whitespace == {" ", "\t", "\n"}
Digits == {"0", "1", "2", "3", "4", "5", "6", "7", "8", "9"}
LowerLetters == {"a", "b", "c", "d", "e", "f", "g", "h", "i", "j", "k", "l", "m",
                 "n", "o", "p", "q", "r", "s", "t", "u", "v", "w", "x", "y", "z"}

\* str.lower on the letters the model's inputs use.
LowerChar(c) == CASE c = "A" -> "a" [] c = "B" -> "b" [] c = "X" -> "x"
                  [] c = "Y" -> "y" [] c = "P" -> "p" [] c = "Q" -> "q"
                  [] OTHER -> c

Lower(s) == [i \in 1..Len(s) |-> LowerChar(s[i])]

\* "".join(parts)
RECURSIVE Join(_)
Join(parts) == IF parts = <<>> THEN <<>> ELSE Head(parts) \o Join(Tail(parts))

\* sub in s
Contains(s, sub) ==
    \E i \in 0..(Len(s) - Len(sub)) : SubSeq(s, i + 1, i + Len(sub)) = sub

StartsWith(s, pre) == Len(s) >= Len(pre) /\ SubSeq(s, 1, Len(pre)) = pre

\* The index of the first occurrence of character c in s, 0 when there is none.
IndexOf(s, c) ==
    IF \E i \in 1..Len(s) : s[i] = c
      THEN CHOOSE i \in 1..Len(s) : s[i] = c /\ \A j \in 1..(i - 1) : s[j] # c
      ELSE 0

\* The index of the last occurrence of character c in s, 0 when there is none.
LastIndexOf(s, c) ==
    IF \E i \in 1..Len(s) : s[i] = c
      THEN CHOOSE i \in 1..Len(s) : s[i] = c /\ \A j \in (i + 1)..Len(s) : s[j] # c
      ELSE 0

\* s.strip(chars): the characters of the set cs removed from both ends.
RECURSIVE LStrip(_, _)
LStrip(s, cs) == IF s # <<>> /\ Head(s) \in cs THEN LStrip(Tail(s), cs) ELSE s

RECURSIVE RStrip(_, _)
RStrip(s, cs) ==
    IF s # <<>> /\ s[Len(s)] \in cs THEN RStrip(SubSeq(s, 1, Len(s) - 1), cs) ELSE s

Strip(s, cs) == RStrip(LStrip(s, cs), cs)

\* re.sub(<one or more characters of cs>, rep, s): every maximal run of
\* characters of cs becomes the one character rep.
RECURSIVE SubRuns(_, _, _)
SubRuns(s, cs, rep) ==
    IF s = <<>> THEN <<>>
    ELSE IF Head(s) \in cs
      THEN <<rep>> \o SubRuns(LStrip(s, cs), cs, rep)
      ELSE <<Head(s)>> \o SubRuns(Tail(s), cs, rep)

\* s.split(c) for a one-character separator: empty pieces are kept.
RECURSIVE Split(_, _)
Split(s, c) ==
    LET i == IndexOf(s, c)
    IN IF i = 0 THEN <<s>>
       ELSE <<SubSeq(s, 1, i - 1)>> \o Split(SubSeq(s, i + 1, Len(s)), c)

\* [x for x in xs if x]
RECURSIVE NonEmpty(_)
NonEmpty(xs) ==
    IF xs = <<>> THEN <<>>
    ELSE IF Head(xs) = <<>> THEN NonEmpty(Tail(xs))
    ELSE <<Head(xs)>> \o NonEmpty(Tail(xs))

\* s with every character a replaced by the string b.
RECURSIVE ReplaceChar(_, _, _)
ReplaceChar(s, a, b) ==
    IF s = <<>> THEN <<>>
    ELSE (IF Head(s) = a THEN b ELSE <<Head(s)>>) \o ReplaceChar(Tail(s), a, b)

-----------------------------------------------------------------------------
(* parsers.py: _normalise_text *)

\* No strip(): the ends keep their space.
normalise_text_NoStrip(text) ==
    IF text = None THEN None
    ELSE LET cleaned == SubRuns(text, Whitespace, " ")
         IN IF cleaned = <<>> THEN None ELSE cleaned

normalise_text(text) ==
    IF text = None THEN None
    ELSE LET cleaned == Strip(SubRuns(text, Whitespace, " "), Whitespace)
         IN IF cleaned = <<>> THEN None ELSE cleaned

-----------------------------------------------------------------------------
(* urllib.parse, as far as the parsers and the facade use it.  The model's *)
(* URLs hold no fragment ("#"), no parameters (";"), no percent escapes and *)
(* no dot segments.                                                        *)

SchemeChars == LowerLetters \cup Digits \cup {"+", "-", "."}

\* The first index of s at or after 1 that holds a character of cs, or
\* Len(s) + 1 when there is none.
FirstOf(s, cs) ==
    IF \E i \in 1..Len(s) : s[i] \in cs
      THEN CHOOSE i \in 1..Len(s) : s[i] \in cs /\ \A j \in 1..(i - 1) : s[j] \notin cs
      ELSE Len(s) + 1

\* urlparse(url) is [scheme, netloc, path, query, invalid]; invalid is the
\* ValueError ("Invalid IPv6 URL") that urlsplit raises for a netloc with one
\* bracket and not the other.  The stages pass what is already split off.
ParsePathAt(scheme, netloc, tail, q) ==
    [scheme |-> scheme,
     netloc |-> netloc,
     path |-> IF q = 0 THEN tail ELSE SubSeq(tail, 1, q - 1),
     query |-> IF q = 0 THEN <<>> ELSE SubSeq(tail, q + 1, Len(tail)),
     invalid |-> (IndexOf(netloc, "[") > 0) # (IndexOf(netloc, "]") > 0)]

ParsePath(scheme, netloc, tail) == ParsePathAt(scheme, netloc, tail, IndexOf(tail, "?"))

ParseNetlocAt(scheme, after, netEnd) ==
    ParsePath(scheme, SubSeq(after, 1, netEnd - 1), SubSeq(after, netEnd, Len(after)))

ParseAuthority(scheme, rest) ==
    IF StartsWith(rest, <<"/", "/">>)
      THEN ParseNetlocAt(scheme, SubSeq(rest, 3, Len(rest)),
                         FirstOf(SubSeq(rest, 3, Len(rest)), {"/", "?"}))
      ELSE ParsePath(scheme, <<>>, rest)

\* The index of the colon that ends the scheme of url, 0 when url has none.
SchemeColonAt(url, colon) ==
    IF /\ colon > 1
       /\ url[1] \in LowerLetters
       /\ \A i \in 1..(colon - 1) : url[i] \in SchemeChars
      THEN colon
      ELSE 0

ParseAfterScheme(url, colon) ==
    ParseAuthority(SubSeq(url, 1, colon - 1), SubSeq(url, colon + 1, Len(url)))

UrlParse(url) == ParseAfterScheme(url, SchemeColonAt(url, IndexOf(url, ":")))

\* urlunparse
UrlUnparse(scheme, netloc, path, query) ==
    (IF scheme = <<>> THEN <<>> ELSE scheme \o <<":">>)
    \o (IF netloc = <<>> THEN <<>> ELSE <<"/", "/">> \o netloc)
    \o path
    \o (IF query = <<>> THEN <<>> ELSE <<"?">> \o query)

UsesRelative == {<<"h", "t", "t", "p">>, <<"h", "t", "t", "p", "s">>}

\* urljoin(base, url) for a non-empty base, from the two parsed URLs.  The
\* result is a record: raised says that urljoin raised ValueError, url is the
\* joined URL otherwise.
UrlJoinParsed(base, url, b, u, scheme) ==
    [raised |-> url # <<>> /\ (b.invalid \/ u.invalid),
     url |->
       IF url = <<>> THEN base
       ELSE IF scheme # b.scheme \/ scheme \notin UsesRelative THEN url
       ELSE IF u.netloc # <<>>
         THEN UrlUnparse(scheme, u.netloc, u.path, u.query)
       ELSE IF u.path = <<>>
         THEN UrlUnparse(scheme, b.netloc, b.path,
                         IF u.query = <<>> THEN b.query ELSE u.query)
       ELSE IF Head(u.path) = "/"
         THEN UrlUnparse(scheme, b.netloc, u.path, u.query)
       ELSE UrlUnparse(scheme, b.netloc,
                       (IF LastIndexOf(b.path, "/") = 0 THEN <<"/">>
                        ELSE SubSeq(b.path, 1, LastIndexOf(b.path, "/"))) \o u.path,
                       u.query)]

UrlJoinSchemes(base, url, b, u) ==
    UrlJoinParsed(base, url, b, u, IF u.scheme = <<>> THEN b.scheme ELSE u.scheme)

UrlJoin(base, url) == UrlJoinSchemes(base, url, UrlParse(base), UrlParse(url))

\* One "key=value" field of a query string: "+" decodes to a space.
QueryField(f) ==
    LET eq == IndexOf(f, "=")
    IN [key |-> ReplaceChar(IF eq = 0 THEN f ELSE SubSeq(f, 1, eq - 1), "+", <<" ">>),
        value |-> ReplaceChar(IF eq = 0 THEN <<>> ELSE SubSeq(f, eq + 1, Len(f)),
                              "+", <<" ">>)]

\* parse_qs(query), as the sequence of its (key, value) fields in order:
\* fields with a blank value are dropped (keep_blank_values is False).
RECURSIVE QueryFields(_)
QueryFields(fs) ==
    IF fs = <<>> THEN <<>>
    ELSE LET f == QueryField(Head(fs))
         IN (IF f.value = <<>> THEN <<>> ELSE <<f>>) \o QueryFields(Tail(fs))

ParseQs(query) == QueryFields(NonEmpty(Split(query, "&")))

\* key in parse_qs(query)
QsHas(fields, key) == \E i \in 1..Len(fields) : fields[i].key = key

\* parse_qs(query)[key][0]
QsFirst(fields, key) ==
    fields[CHOOSE i \in 1..Len(fields) :
             fields[i].key = key /\ \A j \in 1..(i - 1) : fields[j].key # key].value

-----------------------------------------------------------------------------
(* parsers.py: _is_catalog_link, _extract_category_id_from_url *)

CatalogMarker == <<"/", "c", "a", "t", "a", "l", "o", "g", "/">>

CategoryKeys == << <<"p", "t">>,
                   <<"p", "a", "r", "t", "t", "y", "p", "e">>,
                   <<"p", "a", "r", "t", "T", "y", "p", "e">>,
                   <<"c", "a", "t", "e", "g", "o", "r", "y">> >>

HasCategoryKey(query) == \E k \in 1..Len(CategoryKeys) : QsHas(query, CategoryKeys[k])

is_catalog_link_parsed(parsed) ==
    \/ Contains(parsed.path, CatalogMarker)
    \/ HasCategoryKey(ParseQs(parsed.query))

is_catalog_link(url) == is_catalog_link_parsed(UrlParse(url))

\* re.search(r"(\d{3,})", s).group(1): the first run of three or more digits,
\* whole; <<>> when there is none.
DigitRun3(s) ==
    LET starts == {i \in 1..(Len(s) - 2) : \A j \in i..(i + 2) : s[j] \in Digits}
    IN IF starts = {} THEN <<>>
       ELSE LET i == CHOOSE x \in starts : \A y \in starts : x <= y
                e == CHOOSE x \in i..Len(s) :
                        /\ \A j \in i..x : s[j] \in Digits
                        /\ (x = Len(s) \/ s[x + 1] \notin Digits)
            IN SubSeq(s, i, e)

\* re.sub(r"[^a-z0-9]+", "-", s.lower()).strip("-")
SlugLower(low) ==
    Strip(SubRuns(low, {low[i] : i \in 1..Len(low)} \ (LowerLetters \cup Digits), "-"),
          {"-"})

Slug(s) == SlugLower(Lower(s))

HasDigit(s) == \E i \in 1..Len(s) : s[i] \in Digits

\* The value of the first key of CategoryKeys that the query holds
\* (parsers.py:45-48)
FirstKeyValue(query) ==
    QsFirst(query,
            CategoryKeys[CHOOSE k \in 1..Len(CategoryKeys) :
                           /\ QsHas(query, CategoryKeys[k])
                           /\ \A j \in 1..(k - 1) : ~QsHas(query, CategoryKeys[j])])

\* parsers.py:50-52
PathSegments(path_without_slash) ==
    NonEmpty(IF IndexOf(path_without_slash, ",") > 0
               THEN Split(path_without_slash, ",")
               ELSE Split(path_without_slash, "/"))

\* parsers.py:54-55, last being segments[-1].strip()
SecondToLast(segments, last) ==
    IF last # <<>> /\ ~HasDigit(last) /\ Len(segments) >= 2
      THEN Strip(segments[Len(segments) - 1], Whitespace)
      ELSE last

\* parsers.py:53-55
LastSegment(segments) ==
    SecondToLast(segments,
                 IF Len(segments) > 0 THEN Strip(segments[Len(segments)], Whitespace)
                 ELSE <<>>)

\* parsers.py:61-66
DigitsOrSlug(digits, slug) ==
    IF digits # <<>> THEN digits
    ELSE IF slug = <<>> THEN None ELSE slug

\* parsers.py:56-66
IdFromSegment(last_segment) ==
    IF last_segment = <<>> THEN None
    ELSE DigitsOrSlug(DigitRun3(last_segment), Slug(last_segment))

\* parsers.py:45-66
IdFromQueryOrPath(query, path) ==
    IF HasCategoryKey(query) THEN FirstKeyValue(query)
    ELSE IdFromSegment(LastSegment(PathSegments(RStrip(path, {"/"}))))

IdFromParsed(parsed) == IdFromQueryOrPath(ParseQs(parsed.query), parsed.path)

extract_category_id_from_url(url) == IdFromParsed(UrlParse(url))

-----------------------------------------------------------------------------
(* The events an html.parser.HTMLParser hands to its handlers.  A start    *)
(* tag carries its attributes: classes is the class attribute split on     *)
(* whitespace, pn is attrs.get("data-partnumber") and href is              *)
(* attrs.get("href"), each None when the attribute is missing.             *)

Event(kind, tag, classes, pn, href, data) ==
    [kind |-> kind, tag |-> tag, classes |-> classes, pn |-> pn, href |-> href,
     data |-> data]

StartEvent(tag, classes, pn, href) == Event("start", tag, classes, pn, href, <<>>)
EndEvent(tag) == Event("end", tag, {}, None, None, <<>>)
DataEvent(data) == Event("data", "", {}, None, None, data)

\* Inputs of the product extractor.
\* The attributes of a tr: its classes and its data-partnumber.
RowAttrs == {<<{}, None>>, <<{"odd"}, <<>>>>, <<{"listingrow"}, None>>,
             <<{"odd", "listing-row"}, <<>>>>, <<{}, <<"P", "1">>>>}
CellClassSets == {{}, {"spacer"}, {"listing-brand"}, {"listing-price"},
                  {"partnumber"}, {"brand", "price"}}
MoreInfo1 == <<"/", "m", "o", "r", "e", "i", "n", "f", "o", ".", "p", "h", "p", "?", "p", "k", "=", "1">>
MoreInfo2 == <<"/", "m", "o", "r", "e", "i", "n", "f", "o", ".", "p", "h", "p", "?", "p", "k", "=", "2">>
CatalogHref == <<"/", "c", "a", "t", "a", "l", "o", "g", "/", "x">>
HelpHref == <<"/", "h", "e", "l", "p">>
BracketHref == <<"/", "/", "[", "/", "c", "a", "t", "a", "l", "o", "g", "/">>
\* The attributes of an a: its href and its data-partnumber.
AnchorAttrs == {<<None, None>>, <<<<>>, None>>, <<HelpHref, None>>,
                <<MoreInfo1, None>>, <<MoreInfo2, None>>, <<CatalogHref, <<"Q", "2">>>>,
                <<None, <<"Q", "2">>>>, <<BracketHref, None>>}
TextChunks == {<<" ">>, <<"A", "$", "5">>}
OtherTags == {"div"}

\* Inputs of the category extractor.
Cat2020 == <<"/", "c", "a", "t", "a", "l", "o", "g", "/", "a", ",", "2", "0", "2", "0", ",", "b">>
Cat2021 == <<"/", "c", "a", "t", "a", "l", "o", "g", "/", "a", ",", "2", "0", "2", "1">>
CatQuery2020 == <<"/", "x", "?", "p", "t", "=", "2", "0", "2", "0">>
HelpDir == <<"/", "h", "e", "l", "p", "/">>
NoIdHref == <<"/", "+", ",", "/", "c", "a", "t", "a", "l", "o", "g", "/">>
BracketCatalog == <<"/", "/", "[", "x", "/", "c", "a", "t", "a", "l", "o", "g", "/", "a", ",", "2", "0", "2", "0">>
CategoryHrefs == {None, <<>>, HelpDir, Cat2020, Cat2021, CatQuery2020, NoIdHref,
                  BracketCatalog}
NameChunks == {<<" ", "A">>, <<"B">>}

CategoryBase == <<"h", "t", "t", "p", ":", "/", "/", "r", "/", "c", "a", "t", "a", "l", "o", "g", "/", "t", ",", "2", "0", "1", "0">>

ProductBase == <<"h", "t", "t", "p", ":", "/", "/", "r", "/", "c", "a", "t", "a", "l", "o", "g", "/", "t", ",", "2", "0", "1", "0">>

-----------------------------------------------------------------------------
(* State *)

VARIABLES
    \* _ProductHTMLParser (parsers.py:131-138) and parse_products
    products, current_row, current_field, buffer, row_stack,
    p_error,          \* the exception that ended feed(), or "None"
    p_returned,       \* parse_products has returned parser.products
    \* history of the product extractor's run
    p_events,         \* events fed so far
    doc_rows,         \* the tr elements open in the document: is each a listing row
    well_formed,      \* so far only listing rows, none nested, none closed twice
    last,             \* the event handled last: its kind, its tag, a row's data-partnumber
    provisional,      \* current_field was activated by an anchor, not by a cell
    closed_row,       \* the partial product the last event concluded, if it did
    row_opens,        \* tr opens so far that carried a listing class or a part number
    unmapped_anchors, \* in a cell with no mapped class: the anchors open in it; else -1
    rerun_field       \* current_field as a second run of the last handler call leaves it

prod_vars == <<products, current_row, current_field, buffer, row_stack, p_error,
               p_returned, p_events, doc_rows, well_formed, last, provisional,
               closed_row, row_opens, unmapped_anchors, rerun_field>>

VARIABLES
    \* _CategoryHTMLParser (parsers.py:70-75) and parse_categories
    categories, current_href, c_buffer,
    c_error,          \* the exception that ended feed(), or "None"
    c_returned,       \* parse_categories has returned
    c_result          \* the list it returned

cat_vars == <<categories, current_href, c_buffer, c_error, c_returned, c_result>>

VARIABLES
    \* one RockAutoScraper instance and its user (scraper.py, main.py)
    k_kind,           \* who holds the instance: a request handler or a with block
    k_pc,             \* where the holder is
    k_response,       \* what the holder ended with
    k_calls,          \* facade calls the holder has made
    client_closed,    \* self._client has been closed
    \* the facade call in progress
    f_op, f_pc,
    f_category_id, f_category_url,
    f_vehicle,        \* year, make, model and engine of the call
    f_extra,          \* extra_query_params of the call
    f_url,            \* the URL the call fetches, None before it is built
    f_fetches,        \* self._client.get calls of this facade call
    f_threw,          \* the get raised
    f_status,         \* the status of the response, 0 before there is one
    f_parses,         \* parse passes of this facade call
    f_outcome         \* "ok", or the exception the call raised

fac_vars == <<k_kind, k_pc, k_response, k_calls, client_closed, f_op, f_pc,
              f_category_id, f_category_url, f_vehicle, f_extra, f_url, f_fetches,
              f_threw, f_status, f_parses, f_outcome>>

VARIABLES
    \* one application of a text function of parsers.py to one text
    t_text,           \* the text: None, or a string
    t_op,             \* what was applied to it: "none" so far
    t_out             \* what that returned or assigned

text_vars == <<t_text, t_op, t_out>>

MaxEvents == 7
MaxDepth == 3
MaxCategories == 3
MaxChunks == 2
MaxCalls == 2
MaxText == 5

-----------------------------------------------------------------------------
(* parsers.py: _PartialProduct, _ProductHTMLParser *)

NoRow == <<>>
NoField == "None"

PartialProduct == [brand |-> None, part_number |-> None, description |-> None,
                   price |-> None, details_url |-> None]

LISTING_ROW_CLASSES == {"listingrow", "listing-row", "listingRow"}

has_listing_class(attrs) == LISTING_ROW_CLASSES \cap attrs.classes # {}

\* The row test of handle_starttag: a part-number attribute or a listing class.
is_listing_row(attrs) == Truthy(attrs.pn) \/ has_listing_class(attrs)

field_map ==
    [cls \in {"listing-brand", "listing-mfr", "mfr", "brand", "listing-description",
              "application", "description", "listing-price", "price", "partnumber"} |->
       CASE cls \in {"listing-brand", "listing-mfr", "mfr", "brand"} -> "brand"
         [] cls \in {"listing-description", "application", "description"} -> "description"
         [] cls \in {"listing-price", "price"} -> "price"
         [] OTHER -> "part_number"]

\* The fields the class names of a cell map to: the fields the loop of
\* handle_starttag can meet first (parsers.py:174-178).
cell_fields(attrs) == {field_map[cls] : cls \in attrs.classes \cap DOMAIN field_map}

\* setattr(row, field, value)
SetField(row, field, value) ==
    CASE field = "brand" -> [row EXCEPT !.brand = value]
      [] field = "part_number" -> [row EXCEPT !.part_number = value]
      [] field = "description" -> [row EXCEPT !.description = value]
      [] field = "price" -> [row EXCEPT !.price = value]

\* The last match in place of the first.
price_search_Last(value) ==
    LET n == Len(value)
        DigitsFrom(i) == i <= n /\ value[i] \in Digits
        RECURSIVE SkipWs(_)
        SkipWs(i) == IF i <= n /\ value[i] \in Whitespace THEN SkipWs(i + 1) ELSE i
        RECURSIVE SkipDigits(_)
        SkipDigits(i) == IF DigitsFrom(i) THEN SkipDigits(i + 1) ELSE i
        starts == {i \in 1..n : value[i] = "$" /\ DigitsFrom(SkipWs(i + 1))}
    IN IF starts = {} THEN [found |-> FALSE, text |-> <<>>]
       ELSE LET i == CHOOSE x \in starts : \A y \in starts : x >= y
                e == SkipDigits(SkipWs(i + 1))
                decimal == /\ e <= n /\ value[e] \in {".", ","}
                           /\ DigitsFrom(e + 1) /\ DigitsFrom(e + 2)
            IN [found |-> TRUE,
                text |-> SubSeq(value, i, IF decimal THEN e + 2 ELSE e - 1)]

\* re.search(r"\$\s*[0-9]+(?:[.,][0-9]{2})?", value): the first match in scan
\* order, as [found, text]; the digits are taken greedily and the decimal
\* part when it is there.
price_search(value) ==
    LET n == Len(value)
        DigitsFrom(i) == i <= n /\ value[i] \in Digits
        RECURSIVE SkipWs(_)
        SkipWs(i) == IF i <= n /\ value[i] \in Whitespace THEN SkipWs(i + 1) ELSE i
        RECURSIVE SkipDigits(_)
        SkipDigits(i) == IF DigitsFrom(i) THEN SkipDigits(i + 1) ELSE i
        starts == {i \in 1..n : value[i] = "$" /\ DigitsFrom(SkipWs(i + 1))}
    IN IF starts = {} THEN [found |-> FALSE, text |-> <<>>]
       ELSE LET i == CHOOSE x \in starts : \A y \in starts : x <= y
                e == SkipDigits(SkipWs(i + 1))
                decimal == /\ e <= n /\ value[e] \in {".", ","}
                           /\ DigitsFrom(e + 1) /\ DigitsFrom(e + 2)
            IN [found |-> TRUE,
                text |-> SubSeq(value, i, IF decimal THEN e + 2 ELSE e - 1)]

\* The price goes in as the cell's whole text.
cell_value_Whole(field, value) == value

\* The value a closing cell assigns: for the price field the matched amount
\* with its spaces removed, when there is a match.
cell_value(field, value) ==
    LET price_match == price_search(value)
    IN IF field = "price" /\ price_match.found
         THEN ReplaceChar(price_match.text, " ", <<>>)
         ELSE value

\* The test with details_url counted as a field.
has_any_field_WithUrl(row) ==
    \/ Truthy(row.brand)
    \/ Truthy(row.part_number)
    \/ Truthy(row.description)
    \/ Truthy(row.price)
    \/ Truthy(row.details_url)

\* The any([...]) of handle_endtag: a field of the four is truthy.
has_any_field(row) ==
    \/ Truthy(row.brand)
    \/ Truthy(row.part_number)
    \/ Truthy(row.description)
    \/ Truthy(row.price)

\* The href test of an anchor in a row.
is_details_href(href) ==
    \/ Contains(href, <<"m", "o", "r", "e", "i", "n", "f", "o", ".", "p", "h", "p">>)
    \/ Contains(href, <<"c", "a", "t", "a", "l", "o", "g", "/">>)


parser_vars == <<products, current_row, current_field, buffer, row_stack, p_error>>

\* The row starts without its depth marker.
start_row_NoPush(attrs) ==
    /\ IF is_listing_row(attrs)
         THEN current_row' = <<[PartialProduct EXCEPT !.part_number = attrs.pn]>>
         ELSE UNCHANGED current_row
    /\ UNCHANGED <<products, current_field, buffer, row_stack, p_error>>

\* handle_starttag, tag == "tr" (parsers.py:149-154)
start_row(attrs) ==
    /\ IF is_listing_row(attrs)
         THEN /\ current_row' = <<[PartialProduct EXCEPT !.part_number = attrs.pn]>>
              /\ row_stack' = Append(row_stack, "tr")
         ELSE UNCHANGED <<current_row, row_stack>>
    /\ UNCHANGED <<products, current_field, buffer, p_error>>

\* The loop without its else clause: a cell with no mapped class leaves the
\* field and the buffer as they are.
start_cell_KeepsField(attrs) ==
    /\ current_row # NoRow
    /\ LET mapped == attrs.classes \cap DOMAIN field_map
       IN IF mapped # {}
            THEN (\E cls \in mapped : current_field' = field_map[cls]) /\ buffer' = <<>>
            ELSE UNCHANGED <<current_field, buffer>>
    /\ UNCHANGED <<products, current_row, row_stack, p_error>>

\* handle_starttag, tag == "td" (parsers.py:159-182).  The loop runs over a
\* set of class names, whose iteration order Python does not fix: with two
\* mapped classes either may be met first.
start_cell(attrs) ==
    /\ current_row # NoRow
    /\ LET mapped == attrs.classes \cap DOMAIN field_map
       IN IF mapped # {}
            THEN \E cls \in mapped : current_field' = field_map[cls]
            ELSE current_field' = NoField
    /\ buffer' = <<>>
    /\ UNCHANGED <<products, current_row, row_stack, p_error>>

\* The row after an anchor's href and data-partnumber are looked at
\* (parsers.py:185-191); joined is urljoin(base_url, href).
anchor_row(row, attrs, joined) ==
    LET linked == IF Truthy(attrs.href) /\ row.details_url = None
                     /\ is_details_href(attrs.href)
                    THEN [row EXCEPT !.details_url = joined]
                    ELSE row
    IN IF Truthy(attrs.pn) /\ ~Truthy(linked.part_number)
         THEN [linked EXCEPT !.part_number = attrs.pn]
         ELSE linked

\* handle_starttag, tag == "a" (parsers.py:184-196); joined is
\* urljoin(base_url, href).  urljoin raises ValueError for an href whose
\* authority holds an unmatched bracket; the exception leaves the handler
\* and feed().
start_anchor_joined(attrs, joined) ==
    IF /\ Truthy(attrs.href)
       /\ current_row[1].details_url = None
       /\ is_details_href(attrs.href)
       /\ joined.raised
      THEN /\ p_error' = "ValueError"
           /\ UNCHANGED <<products, current_row, current_field, buffer, row_stack>>
      ELSE /\ current_row' = <<anchor_row(current_row[1], attrs, joined.url)>>
           /\ IF current_field = NoField
                THEN /\ buffer' = <<>>
                     /\ current_field' = "part_number"
                ELSE UNCHANGED <<buffer, current_field>>
           /\ UNCHANGED <<products, row_stack, p_error>>

start_anchor(attrs) ==
    /\ current_row # NoRow
    /\ start_anchor_joined(attrs, UrlJoin(ProductBase, attrs.href))

\* handle_starttag (parsers.py:146-196)
Product_handle_starttag(tag, attrs) ==
    IF tag = "tr" THEN start_row(attrs)
    ELSE IF current_row = NoRow THEN UNCHANGED parser_vars
    ELSE IF tag = "td" THEN start_cell(attrs)
    ELSE IF tag = "a" THEN start_anchor(attrs)
    ELSE UNCHANGED parser_vars

\* handle_data (parsers.py:198-200)
Product_handle_data(data) ==
    /\ IF current_field # NoField
         THEN buffer' = Append(buffer, data)
         ELSE UNCHANGED buffer
    /\ UNCHANGED <<products, current_row, current_field, row_stack, p_error>>

\* handle_endtag, tag == "td" with a field active (parsers.py:203-212)
end_cell ==
    /\ LET value == normalise_text(Join(buffer))
       IN IF Truthy(value)
            THEN current_row' =
                   <<SetField(current_row[1], current_field,
                              cell_value(current_field, value))>>
            ELSE UNCHANGED current_row
    /\ current_field' = NoField
    /\ buffer' = <<>>
    /\ UNCHANGED <<products, row_stack, p_error>>

\* The part number after an anchor with captured text closes (parsers.py:217)
anchor_part_number(part_number, value) ==
    IF Truthy(part_number) THEN part_number ELSE value

\* handle_endtag, tag == "a" with part_number active (parsers.py:214-220)
end_anchor ==
    /\ LET value == normalise_text(Join(buffer))
       IN IF Truthy(value)
            THEN current_row' =
                   <<[current_row[1] EXCEPT
                        !.part_number = anchor_part_number(@, value)]>>
            ELSE UNCHANGED current_row
    /\ buffer' = <<>>
    /\ current_field' = NoField
    /\ UNCHANGED <<products, row_stack, p_error>>

\* The row concluded without lines 236-237: the field stays active and the
\* buffer keeps its text.
end_row_KeepsCapture ==
    LET popped == IF row_stack # <<>> THEN SubSeq(row_stack, 1, Len(row_stack) - 1)
                  ELSE row_stack
    IN /\ row_stack' = popped
       /\ IF popped = <<>>
            THEN /\ products' = IF has_any_field(current_row[1])
                                  THEN Append(products, current_row[1])
                                  ELSE products
                 /\ current_row' = NoRow
            ELSE UNCHANGED <<products, current_row>>
       /\ UNCHANGED <<current_field, buffer, p_error>>

\* handle_endtag, tag == "tr" with a row open (parsers.py:222-237)
end_row ==
    LET popped == IF row_stack # <<>> THEN SubSeq(row_stack, 1, Len(row_stack) - 1)
                  ELSE row_stack
    IN /\ row_stack' = popped
       /\ IF popped = <<>>
            THEN /\ products' = IF has_any_field(current_row[1])
                                  THEN Append(products, current_row[1])
                                  ELSE products
                 /\ current_row' = NoRow
                 /\ current_field' = NoField
                 /\ buffer' = <<>>
            ELSE UNCHANGED <<products, current_row, current_field, buffer>>
       /\ UNCHANGED p_error

\* handle_endtag (parsers.py:202-237)
Product_handle_endtag(tag) ==
    IF tag = "td" /\ current_field # NoField /\ current_row # NoRow THEN end_cell
    ELSE IF tag = "a" /\ current_field = "part_number" /\ current_row # NoRow
      THEN end_anchor
    ELSE IF tag = "tr" /\ current_row # NoRow THEN end_row
    ELSE UNCHANGED parser_vars

-----------------------------------------------------------------------------
(* parse_products: feed(html) hands the document's events to the handlers  *)
(* one by one, then parser.products is returned (parsers.py:240-243).      *)

Feeding == p_error = "None" /\ ~p_returned /\ p_events < MaxEvents

\* The history kept beside the parser's own state.
Track(ev) ==
    /\ p_events' = p_events + 1
    /\ last' = [kind |-> ev.kind, tag |-> ev.tag,
                pn |-> IF ev.tag = "tr" THEN ev.pn ELSE None]
    /\ doc_rows' =
         IF ev.kind = "start" /\ ev.tag = "tr"
           THEN Append(doc_rows, is_listing_row(ev))
         ELSE IF ev.kind = "end" /\ ev.tag = "tr" /\ doc_rows # <<>>
           THEN SubSeq(doc_rows, 1, Len(doc_rows) - 1)
         ELSE doc_rows
    /\ well_formed' =
         /\ well_formed
         /\ ev.kind = "start" /\ ev.tag = "tr"
              => doc_rows = <<>> /\ is_listing_row(ev)
         /\ ev.kind = "end" /\ ev.tag = "tr" => doc_rows # <<>>
    /\ provisional' =
         IF ev.kind = "start" /\ ev.tag = "a" /\ current_row # NoRow
              /\ current_field = NoField /\ current_field' # NoField
           THEN TRUE
         ELSE IF ev.kind = "start" /\ ev.tag = "td" THEN FALSE
         ELSE provisional /\ current_field' # NoField /\ current_row' # NoRow
    /\ closed_row' = IF current_row # NoRow /\ current_row' = NoRow
                       THEN current_row ELSE NoRow
    /\ row_opens' = IF ev.kind = "start" /\ ev.tag = "tr" /\ is_listing_row(ev)
                      THEN row_opens + 1 ELSE row_opens
    /\ unmapped_anchors' =
         IF ev.tag = "td"
           THEN (IF ev.kind = "start" /\ cell_fields(ev) = {} THEN 0 ELSE -1)
         ELSE IF ev.tag = "tr" THEN -1
         ELSE IF ev.tag = "a" /\ unmapped_anchors >= 0
           THEN (IF ev.kind = "start" THEN unmapped_anchors + 1
                 ELSE IF unmapped_anchors > 0 THEN unmapped_anchors - 1
                 ELSE 0)
         ELSE unmapped_anchors
    /\ IF ev.kind = "start" /\ ev.tag = "td" /\ current_row # NoRow
            /\ cell_fields(ev) # {}
         THEN rerun_field' \in cell_fields(ev)
         ELSE rerun_field' = current_field'

FeedStartRow ==
    /\ Feeding
    /\ Len(doc_rows) < MaxDepth
    /\ \E a \in RowAttrs :
         LET ev == StartEvent("tr", a[1], a[2], None)
         IN Product_handle_starttag("tr", ev) /\ Track(ev)
    /\ UNCHANGED p_returned
    /\ UNCHANGED <<cat_vars, fac_vars, text_vars>>

FeedStartCell ==
    /\ Feeding
    /\ \E classes \in CellClassSets :
         LET ev == StartEvent("td", classes, None, None)
         IN Product_handle_starttag("td", ev) /\ Track(ev)
    /\ UNCHANGED p_returned
    /\ UNCHANGED <<cat_vars, fac_vars, text_vars>>

FeedStartAnchor ==
    /\ Feeding
    /\ \E a \in AnchorAttrs :
         LET ev == StartEvent("a", {}, a[2], a[1])
         IN Product_handle_starttag("a", ev) /\ Track(ev)
    /\ UNCHANGED p_returned
    /\ UNCHANGED <<cat_vars, fac_vars, text_vars>>

FeedStartOther ==
    /\ Feeding
    /\ \E tag \in OtherTags :
         LET ev == StartEvent(tag, {}, None, None)
         IN Product_handle_starttag(tag, ev) /\ Track(ev)
    /\ UNCHANGED p_returned
    /\ UNCHANGED <<cat_vars, fac_vars, text_vars>>

FeedData ==
    /\ Feeding
    /\ \E data \in TextChunks :
         Product_handle_data(data) /\ Track(DataEvent(data))
    /\ UNCHANGED p_returned
    /\ UNCHANGED <<cat_vars, fac_vars, text_vars>>

FeedEnd ==
    /\ Feeding
    /\ \E tag \in {"tr", "td", "a"} \cup OtherTags :
         Product_handle_endtag(tag) /\ Track(EndEvent(tag))
    /\ UNCHANGED p_returned
    /\ UNCHANGED <<cat_vars, fac_vars, text_vars>>

\* parse_products returns parser.products once feed() is through.
ProductsReturn ==
    /\ p_error = "None"
    /\ ~p_returned
    /\ p_returned' = TRUE
    /\ UNCHANGED <<parser_vars, p_events, doc_rows, well_formed, last, provisional,
                   closed_row, row_opens, unmapped_anchors, rerun_field>>
    /\ UNCHANGED <<cat_vars, fac_vars, text_vars>>

ProdInit ==
    /\ products = <<>>
    /\ current_row = NoRow
    /\ current_field = NoField
    /\ buffer = <<>>
    /\ row_stack = <<>>
    /\ p_error = "None"
    /\ p_returned = FALSE
    /\ p_events = 0
    /\ doc_rows = <<>>
    /\ well_formed = TRUE
    /\ last = [kind |-> "none", tag |-> "", pn |-> None]
    /\ provisional = FALSE
    /\ closed_row = NoRow
    /\ row_opens = 0
    /\ unmapped_anchors = -1
    /\ rerun_field = NoField

-----------------------------------------------------------------------------
(* parsers.py: _PartialCategory, _CategoryHTMLParser, parse_categories *)

PartialCategory(id, name, url) ==
    [id |-> id, name |-> name, url |-> url, parent_id |-> None]

cparser_vars == <<categories, current_href, c_buffer, c_error>>

\* handle_starttag from the urljoin on (parsers.py:84-91); joined is
\* urljoin(base_url, href)
start_category_anchor(joined) ==
    IF joined.raised
      THEN /\ c_error' = "ValueError"
           /\ UNCHANGED <<categories, current_href, c_buffer>>
    ELSE IF ~is_catalog_link(joined.url) THEN UNCHANGED cparser_vars
    ELSE IF ~Truthy(extract_category_id_from_url(joined.url))
      THEN UNCHANGED cparser_vars
    ELSE /\ current_href' = joined.url
         /\ c_buffer' = <<>>
         /\ UNCHANGED <<categories, c_error>>

\* handle_starttag (parsers.py:77-91)
Category_handle_starttag(tag, attrs) ==
    IF tag # "a" \/ ~Truthy(attrs.href) THEN UNCHANGED cparser_vars
    ELSE start_category_anchor(UrlJoin(CategoryBase, attrs.href))

\* handle_data (parsers.py:93-95)
Category_handle_data(data) ==
    /\ IF current_href # None
         THEN c_buffer' = Append(c_buffer, data)
         ELSE UNCHANGED c_buffer
    /\ UNCHANGED <<categories, current_href, c_error>>

\* The categories after an anchor with the text name closes
\* (parsers.py:100-105)
append_category(name, identifier) ==
    IF Truthy(name) /\ Truthy(identifier)
      THEN Append(categories, PartialCategory(identifier, name, current_href))
      ELSE categories

\* handle_endtag (parsers.py:97-107)
Category_handle_endtag(tag) ==
    IF tag = "a" /\ current_href # None
      THEN /\ categories' = append_category(normalise_text(Join(c_buffer)),
                                            extract_category_id_from_url(current_href))
           /\ current_href' = None
           /\ c_buffer' = <<>>
           /\ UNCHANGED c_error
      ELSE UNCHANGED cparser_vars

\* unique[category.id] = category: the last occurrence takes the first one's place.
setdefault_Overwrite(unique, category) ==
    IF \E i \in 1..Len(unique) : unique[i].id = category.id
      THEN [i \in 1..Len(unique) |->
              IF unique[i].id = category.id THEN category ELSE unique[i]]
      ELSE Append(unique, category)

\* unique.setdefault(category.id, category) on a dict, which keeps its keys
\* in insertion order (parsers.py:115)
setdefault(unique, category) ==
    IF \E i \in 1..Len(unique) : unique[i].id = category.id
      THEN unique
      ELSE Append(unique, category)

\* The loop of parse_categories and the values of the dict (parsers.py:113-116)
RECURSIVE unique_categories(_, _)
unique_categories(unique, cats) ==
    IF cats = <<>> THEN unique
    ELSE unique_categories(setdefault(unique, Head(cats)), Tail(cats))

CatFeeding == c_error = "None" /\ ~c_returned /\ Len(categories) < MaxCategories

CatFeedStart ==
    /\ CatFeeding
    /\ \/ \E href \in CategoryHrefs :
            Category_handle_starttag("a", StartEvent("a", {}, None, href))
       \/ \E tag \in OtherTags :
            Category_handle_starttag(tag, StartEvent(tag, {}, None, None))
    /\ UNCHANGED <<c_returned, c_result>>
    /\ UNCHANGED <<prod_vars, fac_vars, text_vars>>

CatFeedData ==
    /\ CatFeeding
    /\ Len(c_buffer) < MaxChunks
    /\ \E data \in NameChunks : Category_handle_data(data)
    /\ UNCHANGED <<c_returned, c_result>>
    /\ UNCHANGED <<prod_vars, fac_vars, text_vars>>

CatFeedEnd ==
    /\ CatFeeding
    /\ \E tag \in {"a"} \cup OtherTags : Category_handle_endtag(tag)
    /\ UNCHANGED <<c_returned, c_result>>
    /\ UNCHANGED <<prod_vars, fac_vars, text_vars>>

\* parse_categories returns the de-duplicated list once feed() is through.
CategoriesReturn ==
    /\ c_error = "None"
    /\ ~c_returned
    /\ c_returned' = TRUE
    /\ c_result' = unique_categories(<<>>, categories)
    /\ UNCHANGED cparser_vars
    /\ UNCHANGED <<prod_vars, fac_vars, text_vars>>

CatInit ==
    /\ categories = <<>>
    /\ current_href = None
    /\ c_buffer = <<>>
    /\ c_error = "None"
    /\ c_returned = FALSE
    /\ c_result = <<>>

-----------------------------------------------------------------------------
(* scraper.py: RockAutoScraper.get_categories, get_products, close;         *)
(* main.py: list_categories, list_products.  The transport is httpx: a get *)
(* returns a response or raises an httpx.HTTPError, and raise_for_status   *)
(* raises one (HTTPStatusError) for every status that is not 2xx.          *)

Statuses == {200, 204, 302, 404, 503}
CategoryIds == {None, <<>>, <<"2", "0", "2", "0">>, <<"a", " ", "&">>}
CategoryUrls == {None, <<>>, <<"h", "t", "t", "p", ":", "/", "/", "o", "/", "c">>}

\* self.base_url: the default base_url, which has no "/" at its end to strip
\* (scraper.py:32, 38)
BaseUrl == <<"h", "t", "t", "p", "s", ":", "/", "/", "w", "w", "w", ".",
             "r", "o", "c", "k", "a", "u", "t", "o", ".", "c", "o", "m">>

\* year (as str(year) gives it), make, model and engine of a call.
Makes == {<<"A">>, <<" ", "A", "/", "B">>}
Engines == {None, <<>>, <<"2", ".", "5", "P", " ">>}
Vehicles == [year : {<<"2", "0", "1", "0">>}, make : Makes, model : {<<"X">>},
             engine : Engines]
NoVehicle == [year |-> <<>>, make |-> <<>>, model |-> <<>>, engine |-> None]

\* extra_query_params: not given (None), or a dict as the sequence of its
\* items in insertion order.
NoExtra == [given |-> FALSE, items |-> <<>>]
Item(key, value) == [key |-> key, value |-> value]
ExtraParams ==
    {NoExtra,
     [given |-> TRUE, items |-> <<>>],
     [given |-> TRUE, items |-> <<Item(<<"a">>, <<"1">>)>>],
     [given |-> TRUE, items |-> <<Item(<<"p", "t">>, <<"9">>)>>],
     [given |-> TRUE, items |-> <<Item(<<"a">>, <<"1">>), Item(<<"p", "t">>, <<"9">>)>>]}

\* sep.join(parts)
RECURSIVE JoinWith(_, _)
JoinWith(parts, sep) ==
    IF parts = <<>> THEN <<>>
    ELSE IF Len(parts) = 1 THEN Head(parts)
    ELSE Head(parts) \o sep \o JoinWith(Tail(parts), sep)

\* re.sub(r"[^a-z0-9]+", "+", cleaned).strip("+") (scraper.py:48-49)
PlusRuns(cleaned) ==
    Strip(SubRuns(cleaned,
                  {cleaned[i] : i \in 1..Len(cleaned)} \ (LowerLetters \cup Digits),
                  "+"),
          {"+"})

\* _normalise_segment (scraper.py:45-50)
normalise_segment(value) ==
    PlusRuns(ReplaceChar(Lower(Strip(value, Whitespace)), "/", <<" ">>))

\* build_catalog_path (scraper.py:52-69)
build_catalog_path(year, make, model, engine) ==
    <<"/", "e", "n", "/", "c", "a", "t", "a", "l", "o", "g", "/">>
    \o JoinWith(<<normalise_segment(make), year, normalise_segment(model)>>
                \o (IF Truthy(engine) THEN <<normalise_segment(engine)>> ELSE <<>>),
                <<",">>)

\* urllib.parse.quote_plus of one character: letters, digits and "_.-~" stay,
\* a space is "+", the others the model uses are percent-escaped.
QuoteChar(c) ==
    CASE c = " " -> <<"+">>
      [] c = "&" -> <<"%", "2", "6">>
      [] c = "=" -> <<"%", "3", "D">>
      [] c = "+" -> <<"%", "2", "B">>
      [] c = "/" -> <<"%", "2", "F">>
      [] c = "?" -> <<"%", "3", "F">>
      [] OTHER -> <<c>>

RECURSIVE quote_plus(_)
quote_plus(s) == IF s = <<>> THEN <<>> ELSE QuoteChar(Head(s)) \o quote_plus(Tail(s))

\* urlencode(query) for a dict of strings (scraper.py:120)
urlencode(query) ==
    JoinWith([i \in 1..Len(query) |->
                quote_plus(query[i].key) \o <<"=">> \o quote_plus(query[i].value)],
             <<"&">>)

\* query[key] = value: the value of a key the dict holds is replaced where it
\* stands, a new key goes to the end.
DictSet(query, key, value) ==
    IF \E i \in 1..Len(query) : query[i].key = key
      THEN [i \in 1..Len(query) |->
              IF query[i].key = key THEN Item(key, value) ELSE query[i]]
      ELSE Append(query, Item(key, value))

\* query.update(items) (scraper.py:118)
RECURSIVE DictUpdate(_, _)
DictUpdate(query, items) ==
    IF items = <<>> THEN query
    ELSE DictUpdate(DictSet(query, Head(items).key, Head(items).value), Tail(items))

\* The query of get_products (scraper.py:116-118)
products_query(category_id, extra) ==
    IF extra.given /\ extra.items # <<>>
      THEN DictUpdate(<<Item(<<"p", "t">>, category_id)>>, extra.items)
      ELSE <<Item(<<"p", "t">>, category_id)>>

\* urljoin(self.base_url, path) for the built path (scraper.py:81-82, 115, 119)
catalog_url(vehicle) ==
    UrlJoin(BaseUrl,
            build_catalog_path(vehicle.year, vehicle.make, vehicle.model,
                               vehicle.engine)).url

\* The URL get_products fetches (scraper.py:112-120)
products_url(vehicle, category_id, category_url, extra) ==
    IF Truthy(category_url) THEN category_url
    ELSE catalog_url(vehicle) \o <<"?">> \o urlencode(products_query(category_id, extra))

\* What a parse pass over the fetched body ends with: a list, or the
\* ValueError of urljoin (see start_anchor_joined, start_category_anchor).
ParseOutcomes == {"ok", "ValueError"}

\* Response.is_success
is_success(status) == 200 <= status /\ status <= 299

\* raise_for_status raises only for 4xx and 5xx.
raises_for_status_ErrorsOnly(status) == status >= 400

\* response.raise_for_status() raises (scraper.py:85, 124)
raises_for_status(status) == ~is_success(status)

\* "is None" in place of the truth test.
invalid_arguments_NoneOnly(category_id, category_url) ==
    category_url = None /\ category_id = None

\* not category_url and not category_id (scraper.py:109)
invalid_arguments(category_id, category_url) ==
    ~Truthy(category_url) /\ ~Truthy(category_id)

call_vars == <<f_op, f_pc, f_category_id, f_category_url, f_vehicle, f_extra, f_url,
               f_fetches, f_threw, f_status, f_parses, f_outcome>>
holder_vars == <<k_kind, k_pc, k_response, k_calls, client_closed>>

\* A facade method is entered with its arguments.
Enter(op, vehicle, category_id, category_url, extra) ==
    /\ f_op' = op
    /\ f_pc' = "enter"
    /\ f_vehicle' = vehicle
    /\ f_category_id' = category_id
    /\ f_category_url' = category_url
    /\ f_extra' = extra
    /\ f_url' = None
    /\ f_fetches' = 0
    /\ f_threw' = FALSE
    /\ f_status' = 0
    /\ f_parses' = 0
    /\ f_outcome' = "none"
    /\ k_calls' = k_calls + 1

\* Up to the fetch: get_products checks its arguments (scraper.py:109-110);
\* both methods then build the URL (scraper.py:81-83, 112-122).
FacadeBuild ==
    /\ f_pc = "enter"
    /\ IF f_op = "get_products" /\ invalid_arguments(f_category_id, f_category_url)
         THEN f_pc' = "done" /\ f_outcome' = "ValueError" /\ UNCHANGED f_url
         ELSE /\ f_pc' = "fetch"
              /\ f_url' = IF f_op = "get_products"
                             THEN products_url(f_vehicle, f_category_id, f_category_url,
                                               f_extra)
                             ELSE catalog_url(f_vehicle)
              /\ UNCHANGED f_outcome
    /\ UNCHANGED <<f_op, f_category_id, f_category_url, f_vehicle, f_extra, f_fetches,
                   f_threw, f_status, f_parses>>
    /\ UNCHANGED <<holder_vars, prod_vars, cat_vars, text_vars>>

\* response = self._client.get(url) (scraper.py:84, 123)
FacadeFetch ==
    /\ f_pc = "fetch"
    /\ f_fetches' = f_fetches + 1
    /\ \/ /\ f_threw' = TRUE
          /\ f_pc' = "done"
          /\ f_outcome' = "HTTPError"
          /\ UNCHANGED f_status
       \/ /\ \E status \in Statuses : f_status' = status
          /\ f_pc' = "status"
          /\ UNCHANGED <<f_threw, f_outcome>>
    /\ UNCHANGED <<f_op, f_category_id, f_category_url, f_vehicle, f_extra, f_url,
                   f_parses>>
    /\ UNCHANGED <<holder_vars, prod_vars, cat_vars, text_vars>>

\* response.raise_for_status() (scraper.py:85, 124)
FacadeRaiseForStatus ==
    /\ f_pc = "status"
    /\ IF raises_for_status(f_status)
         THEN f_pc' = "done" /\ f_outcome' = "HTTPError"
         ELSE f_pc' = "parse" /\ UNCHANGED f_outcome
    /\ UNCHANGED <<f_op, f_category_id, f_category_url, f_vehicle, f_extra, f_url,
                   f_fetches, f_threw, f_status, f_parses>>
    /\ UNCHANGED <<holder_vars, prod_vars, cat_vars, text_vars>>

\* parse_categories / parse_products over response.text, and the return
\* (scraper.py:86-89, 125-126)
FacadeParse ==
    /\ f_pc = "parse"
    /\ f_parses' = f_parses + 1
    /\ \E outcome \in ParseOutcomes : f_outcome' = outcome
    /\ f_pc' = "done"
    /\ UNCHANGED <<f_op, f_category_id, f_category_url, f_vehicle, f_extra, f_url,
                   f_fetches, f_threw, f_status>>
    /\ UNCHANGED <<holder_vars, prod_vars, cat_vars, text_vars>>

\* A request arrives: get_scraper() makes the instance and the handler calls
\* the facade in its try block (main.py:15-16, 31-32, 60-68).  category_id
\* is a path parameter, a string that is not empty.
HandlerCall ==
    /\ k_kind = "none"
    /\ \/ /\ k_kind' = "list_categories"
          /\ \E vehicle \in Vehicles :
               Enter("get_categories", vehicle, None, None, NoExtra)
       \/ /\ k_kind' = "list_products"
          /\ \E vehicle \in Vehicles, category_url \in CategoryUrls :
               Enter("get_products", vehicle, <<"2", "0", "2", "0">>, category_url,
                     NoExtra)
    /\ k_pc' = "calling"
    /\ UNCHANGED <<k_response, client_closed>>
    /\ UNCHANGED <<prod_vars, cat_vars, text_vars>>

\* except httpx.HTTPError: raise HTTPException(status_code=502)
\* (main.py:33-34, 69-70)
HandlerExcept ==
    /\ k_kind \in {"list_categories", "list_products"}
    /\ k_pc = "calling"
    /\ f_pc = "done"
    /\ f_outcome = "HTTPError"
    /\ k_response' = "502"
    /\ k_pc' = "finally"
    /\ UNCHANGED <<k_kind, k_calls, client_closed, call_vars>>
    /\ UNCHANGED <<prod_vars, cat_vars, text_vars>>

\* scraper.close() placed after the call in the try block: skipped when the
\* call raised.
HandlerFinally_OnSuccessOnly ==
    /\ k_kind \in {"list_categories", "list_products"}
    /\ f_pc = "done"
    /\ \/ k_pc = "finally"
       \/ k_pc = "calling" /\ f_outcome # "HTTPError"
    /\ client_closed' = (client_closed \/ f_outcome = "ok")
    /\ k_pc' = "leave"
    /\ UNCHANGED <<k_kind, k_response, k_calls, call_vars>>
    /\ UNCHANGED <<prod_vars, cat_vars, text_vars>>

\* finally: scraper.close() (main.py:35-36, 71-72), after the try block ended
\* normally, after the except clause, or with another exception in flight
HandlerFinally ==
    /\ k_kind \in {"list_categories", "list_products"}
    /\ f_pc = "done"
    /\ \/ k_pc = "finally"
       \/ k_pc = "calling" /\ f_outcome # "HTTPError"
    /\ client_closed' = TRUE
    /\ k_pc' = "leave"
    /\ UNCHANGED <<k_kind, k_response, k_calls, call_vars>>
    /\ UNCHANGED <<prod_vars, cat_vars, text_vars>>

\* The handler returns the list, or the exception leaves it (main.py:37, 73)
HandlerLeave ==
    /\ k_kind \in {"list_categories", "list_products"}
    /\ k_pc = "leave"
    /\ k_response' = IF k_response = "502" THEN "502"
                     ELSE IF f_outcome = "ok" THEN "200"
                     ELSE "500"
    /\ k_pc' = "exited"
    /\ UNCHANGED <<k_kind, k_calls, client_closed, call_vars>>
    /\ UNCHANGED <<prod_vars, cat_vars, text_vars>>

\* with RockAutoScraper() as scraper: (scraper.py:131-132)
WithEnter ==
    /\ k_kind = "none"
    /\ k_kind' = "with"
    /\ k_pc' = "body"
    /\ UNCHANGED <<k_response, k_calls, client_closed, call_vars>>
    /\ UNCHANGED <<prod_vars, cat_vars, text_vars>>

\* The body of the with block calls the facade.
WithCall ==
    /\ k_kind = "with"
    /\ k_pc = "body"
    /\ k_calls < MaxCalls
    /\ \/ \E vehicle \in Vehicles :
            Enter("get_categories", vehicle, None, None, NoExtra)
       \/ \E vehicle \in Vehicles, category_id \in CategoryIds,
             category_url \in CategoryUrls, extra \in ExtraParams :
            Enter("get_products", vehicle, category_id, category_url, extra)
    /\ k_pc' = "calling"
    /\ UNCHANGED <<k_kind, k_response, client_closed>>
    /\ UNCHANGED <<prod_vars, cat_vars, text_vars>>

\* The call returns into the body, or its exception leaves the body.
WithResume ==
    /\ k_kind = "with"
    /\ k_pc = "calling"
    /\ f_pc = "done"
    /\ k_pc' = IF f_outcome = "ok" THEN "body" ELSE "raised"
    /\ UNCHANGED <<k_kind, k_response, k_calls, client_closed, call_vars>>
    /\ UNCHANGED <<prod_vars, cat_vars, text_vars>>

\* __exit__(exc_type, exc, tb): self.close(), whether or not the body raised
\* (scraper.py:128-135)
WithExit ==
    /\ k_kind = "with"
    /\ k_pc \in {"body", "raised"}
    /\ client_closed' = TRUE
    /\ k_response' = IF k_pc = "body" THEN "ok" ELSE f_outcome
    /\ k_pc' = "exited"
    /\ UNCHANGED <<k_kind, k_calls, call_vars>>
    /\ UNCHANGED <<prod_vars, cat_vars, text_vars>>

FacInit ==
    /\ k_kind = "none"
    /\ k_pc = "idle"
    /\ k_response = "none"
    /\ k_calls = 0
    /\ client_closed = FALSE
    /\ f_op = "none"
    /\ f_pc = "idle"
    /\ f_category_id = None
    /\ f_category_url = None
    /\ f_vehicle = NoVehicle
    /\ f_extra = NoExtra
    /\ f_url = None
    /\ f_fetches = 0
    /\ f_threw = FALSE
    /\ f_status = 0
    /\ f_parses = 0
    /\ f_outcome = "none"

-----------------------------------------------------------------------------
(* _normalise_text and the price of a closing cell, each applied to one    *)
(* text (parsers.py:22-26, 204-209)                                        *)

TextAlphabet == {" ", "\t", "$", "5", "6", ".", "A"}

WasNow == <<"W", "a", "s", " ", "$", "5", "0", ".", "0", "0", ",", " ",
            "n", "o", "w", " ", "$", "4", "5", ".", "7", "9">>

\* What the close of a price cell with the text in its buffer assigns to
\* price; None when it assigns nothing (parsers.py:204-209).
price_cell(text) ==
    LET value == normalise_text(text)
    IN IF Truthy(value) THEN cell_value("price", value) ELSE None

\* The text grows by one character.
TextAppend ==
    /\ t_op = "none"
    /\ t_text # None
    /\ Len(t_text) < MaxText
    /\ \E c \in TextAlphabet : t_text' = Append(t_text, c)
    /\ UNCHANGED <<t_op, t_out>>
    /\ UNCHANGED <<prod_vars, cat_vars, fac_vars>>

\* The text is no string, or it is the text of a cell with two prices.
TextChoose ==
    /\ t_op = "none"
    /\ t_text = <<>>
    /\ t_text' \in {None, WasNow}
    /\ UNCHANGED <<t_op, t_out>>
    /\ UNCHANGED <<prod_vars, cat_vars, fac_vars>>

\* _normalise_text(text)
ApplyNormalise ==
    /\ t_op = "none"
    /\ t_op' = "normalise"
    /\ t_out' = normalise_text(t_text)
    /\ UNCHANGED t_text
    /\ UNCHANGED <<prod_vars, cat_vars, fac_vars>>

\* A price cell closes with the text in its buffer.
ApplyPriceCell ==
    /\ t_op = "none"
    /\ t_text # None
    /\ t_op' = "price"
    /\ t_out' = price_cell(t_text)
    /\ UNCHANGED t_text
    /\ UNCHANGED <<prod_vars, cat_vars, fac_vars>>

TextInit ==
    /\ t_text = <<>>
    /\ t_op = "none"
    /\ t_out = None

-----------------------------------------------------------------------------
(* Specifications *)

vars == <<prod_vars, cat_vars, fac_vars, text_vars>>

Init == ProdInit /\ CatInit /\ FacInit /\ TextInit

ProdNext ==
    \/ FeedStartRow
    \/ FeedStartCell
    \/ FeedStartAnchor
    \/ FeedStartOther
    \/ FeedData
    \/ FeedEnd
    \/ ProductsReturn

CatNext ==
    \/ CatFeedStart
    \/ CatFeedData
    \/ CatFeedEnd
    \/ CategoriesReturn

FacNext ==
    \/ HandlerCall
    \/ HandlerExcept
    \/ HandlerFinally
    \/ HandlerLeave
    \/ WithEnter
    \/ WithCall
    \/ WithResume
    \/ WithExit
    \/ FacadeBuild
    \/ FacadeFetch
    \/ FacadeRaiseForStatus
    \/ FacadeParse

\* The product extractor run on an arbitrary bounded sequence of events.
SpecProd == Init /\ [][ProdNext]_vars

\* The category extractor run on an arbitrary bounded sequence of events.
SpecCat == Init /\ [][CatNext]_vars

\* One scraper instance, held by a request handler or by a with block.
SpecFacade == Init /\ [][FacNext]_vars

TextNext ==
    \/ TextAppend
    \/ TextChoose
    \/ ApplyNormalise
    \/ ApplyPriceCell

\* The text functions, each applied to an arbitrary bounded text.
SpecText == Init /\ [][TextNext]_vars

\* Everything together.
Spec == Init /\ [][ProdNext \/ CatNext \/ FacNext \/ TextNext]_vars

-----------------------------------------------------------------------------
(* Claims *)

\* A field of a product is present: neither absent nor empty.
Present(v) == v # None /\ v # <<>>

AnyPresent(row) ==
    \/ Present(row.brand)
    \/ Present(row.part_number)
    \/ Present(row.description)
    \/ Present(row.price)

\* C1: every product in the product extractor's list has at least one of
\* brand, part_number, description and price present; a row that concludes
\* with all four absent emits nothing, its details_url set or not (the
\* product emitted is the concluded row as it stands, so such a row in the
\* list would break this).
C1_EmittedProductHasField ==
    \A i \in 1..Len(products) : AnyPresent(products[i])

\* A row with a details_url and none of the four fields has just concluded
\* and the list still holds only the one product emitted before it.
C1_Witness ==
    /\ closed_row # NoRow
    /\ ~AnyPresent(closed_row[1])
    /\ closed_row[1].details_url # None
    /\ Len(products) = 1

\* A listing row is open in the document below its innermost open row.
ListingRowBelowTop(rows) == \E i \in 1..(Len(rows) - 1) : rows[i]

\* The innermost open row of the document is its outermost open listing row.
OutermostListingOnTop(rows) ==
    /\ rows # <<>>
    /\ rows[Len(rows)]
    /\ ~ListingRowBelowTop(rows)

EndOfRow(ev) == ev.kind = "end" /\ ev.tag = "tr"

\* C2: a product is emitted only by the row close that matches the open of
\* the outermost listing row; the close of a row nested in an open listing
\* row neither emits a product nor changes the partial product.
C2_OnlyOutermostCloseEmits ==
    [][/\ products' # products
            => EndOfRow(last') /\ OutermostListingOnTop(doc_rows)
       /\ (p_events' # p_events /\ EndOfRow(last') /\ ListingRowBelowTop(doc_rows))
            => products' = products /\ current_row' = current_row]_vars

\* The index of the first category of cats with the id.
FirstWithId(cats, id) ==
    CHOOSE k \in 1..Len(cats) :
      cats[k].id = id /\ \A j \in 1..(k - 1) : cats[j].id # id

\* C3: the list parse_categories returns holds no id twice; each entry is
\* the first category, in document order, the extractor produced with that
\* id; every id produced is in it; and the entries are in the order in which
\* their ids were first seen.
C3_UniqueFirstSeen ==
    c_returned =>
      /\ \A i, j \in 1..Len(c_result) : i # j => c_result[i].id # c_result[j].id
      /\ \A k \in 1..Len(categories) :
           \E i \in 1..Len(c_result) : c_result[i].id = categories[k].id
      /\ \A i \in 1..Len(c_result) :
           /\ \E k \in 1..Len(categories) : categories[k].id = c_result[i].id
           /\ c_result[i] = categories[FirstWithId(categories, c_result[i].id)]
      /\ \A i, j \in 1..Len(c_result) :
           i < j => FirstWithId(categories, c_result[i].id)
                      < FirstWithId(categories, c_result[j].id)

\* Three categories were produced, two of them with one id but different
\* names and urls, the later one last, and two were returned.
C3_Witness ==
    /\ c_returned
    /\ Len(categories) = 3
    /\ Len(c_result) = 2
    /\ categories[1].id = categories[3].id
    /\ categories[1].name # categories[3].name
    /\ categories[1].url # categories[3].url

\* C4: parsing is total: whatever the events, neither extractor reaches an
\* error state.
C4_ParsingTotal == p_error = "None" /\ c_error = "None"

\* C5: get_products with category_id and category_url both absent or empty
\* ends with the invalid-argument error (ValueError) and has issued no fetch.
C5_InvalidArgumentsBeforeFetch ==
    (f_op = "get_products" /\ ~Present(f_category_id) /\ ~Present(f_category_url))
      => /\ f_fetches = 0
         /\ f_pc \in {"enter", "done"}
         /\ f_pc = "done" => f_outcome = "ValueError"

\* get_products was called with an empty category_id and no category_url
\* and has raised.
C5_Witness ==
    /\ f_op = "get_products"
    /\ f_category_id = <<>>
    /\ f_category_url = None
    /\ f_pc = "done"
    /\ f_outcome = "ValueError"

\* C6: once a request handler has returned or let an exception out, and
\* once a with block has been left, the instance's transport is closed.
C6_TransportReleased == k_pc = "exited" => client_closed

\* list_products has let an error that is no transport error out.
C6_Witness ==
    /\ k_kind = "list_products"
    /\ k_pc = "exited"
    /\ k_response = "500"
    /\ f_outcome = "ValueError"
    /\ client_closed

\* The fetch of the call in progress has failed: it threw, or its response
\* is not 2xx.
FetchFailed == f_threw \/ (f_status # 0 /\ f_status \notin 200..299)

\* C7: a facade call fetches at most once; after a fetch that threw or
\* returned a non-success status it ends with a transport error, without
\* another fetch and without a parse pass; a parse pass follows a successful
\* fetch only.
C7_OneFetchNoRetry ==
    /\ f_fetches <= 1
    /\ f_parses <= 1
    /\ (f_pc = "parse" \/ f_parses = 1) => f_fetches = 1 /\ ~FetchFailed
    /\ FetchFailed =>
         /\ f_fetches = 1
         /\ f_parses = 0
         /\ f_pc \in {"status", "done"}
         /\ f_threw => f_pc = "done"
         /\ f_pc = "done" => f_outcome = "HTTPError"

\* A call has ended with a transport error after a redirect response.
C7_Witness ==
    /\ f_pc = "done"
    /\ f_status = 302
    /\ f_fetches = 1
    /\ f_parses = 0
    /\ f_outcome = "HTTPError"

StartOfRow(ev) == ev.kind = "start" /\ ev.tag = "tr"

\* Between the rows of a fragment of listing rows the extractor holds
\* nothing of the rows before; in a row it holds that row.
C8_Scratch ==
    well_formed =>
      IF doc_rows = <<>>
        THEN /\ current_row = NoRow
             /\ current_field = NoField
             /\ buffer = <<>>
             /\ row_stack = <<>>
        ELSE /\ current_row # NoRow
             /\ Len(row_stack) = 1

\* A field of a product is not absent: it is a string, empty or not.
NonAbsent(v) == v # None

AnyNonAbsent(row) ==
    \/ NonAbsent(row.brand)
    \/ NonAbsent(row.part_number)
    \/ NonAbsent(row.description)
    \/ NonAbsent(row.price)

\* The row that concludes is one that has a field: a field not absent, or,
\* read more narrowly, a field present.
HasField(row, nonempty) ==
    IF nonempty THEN AnyPresent(row) ELSE AnyNonAbsent(row)

\* What an event does in a fragment of listing rows.
C8_EventFor(nonempty) ==
    (p_events' # p_events /\ well_formed') =>
      /\ StartOfRow(last') =>
           /\ current_row' = <<[PartialProduct EXCEPT !.part_number = last'.pn]>>
           /\ products' = products
      /\ EndOfRow(last') =>
           /\ products' = IF HasField(current_row[1], nonempty)
                            THEN Append(products, current_row[1])
                            ELSE products
           /\ current_row' = NoRow
      /\ (~StartOfRow(last') /\ ~EndOfRow(last')) =>
           /\ products' = products
           /\ doc_rows = <<>> => UNCHANGED parser_vars

\* C8 as stated: for a fragment of consecutive listing rows, none nested and
\* each closed, the extractor emits exactly one product per row that has at
\* least one non-absent field among brand, part_number, description and
\* price, in document order, and nothing carries over between rows.
C8_OneProductPerNonAbsentRow == [](C8_Scratch) /\ [][C8_EventFor(FALSE)]_vars

\* C8, amended: for a fragment of consecutive listing rows, none nested and
\* each closed, the extractor emits exactly one product per row that has a
\* field present (non-absent and non-empty), in document order; a row starts
\* from the empty partial product and its own data-partnumber with no field
\* active and no text buffered, so what it emits comes from the events
\* between its open and its close; text, cells and anchors outside any row
\* change nothing.
C8_OneProductPerRow == [](C8_Scratch) /\ [][C8_EventFor(TRUE)]_vars

\* Two rows were parsed and returned: the first has a part number, the
\* second has a brand and no part number.
C8_Witness ==
    /\ well_formed
    /\ p_returned
    /\ Len(products) = 2
    /\ Present(products[1].part_number)
    /\ products[2].part_number = None
    /\ Present(products[2].brand)

\* An event of an anchor, or the close of a cell whose text was captured
\* through the part_number field an anchor activated.
AnchorEvent(ev) ==
    \/ ev.tag = "a"
    \/ ev.kind = "end" /\ ev.tag = "td" /\ provisional

\* C9: once the open row's part number is set, no anchor changes it while
\* the row stays open: not an anchor's data-partnumber and not the text
\* captured through the part_number field an anchor activated.
C9_PartNumberKept ==
    [][(/\ p_events' # p_events
        /\ AnchorEvent(last')
        /\ current_row # NoRow
        /\ Present(current_row[1].part_number)
        /\ current_row' # NoRow)
         => current_row'[1].part_number = current_row[1].part_number]_vars

\* C10: once the details_url of the open row is set, no event changes it
\* until the row concludes, so the product carries the first match.
C10_DetailsUrlKept ==
    [][(/\ current_row # NoRow
        /\ current_row[1].details_url # None
        /\ current_row' # NoRow)
         => current_row'[1].details_url = current_row[1].details_url]_vars

\* s without its spaces.
NoSpaces(s) == SelectSeq(s, LAMBDA c : c # " ")

\* s is a currency amount: "$", whitespace or none, one digit or more and,
\* at its end or not, a "." or "," with two digits.
IsAmount(s) ==
    /\ s # <<>>
    /\ s[1] = "$"
    /\ \E k \in 1..Len(s), m \in 2..Len(s) :
         /\ k < m
         /\ \A i \in 2..k : s[i] \in Whitespace
         /\ \A i \in (k + 1)..m : s[i] \in Digits
         /\ \/ m = Len(s)
            \/ /\ Len(s) = m + 3
               /\ s[m + 1] \in {".", ","}
               /\ s[m + 2] \in Digits
               /\ s[m + 3] \in Digits

\* The places <<i, j>> of the currency amounts in v.
Amounts(v) ==
    {a \in (1..Len(v)) \X (1..Len(v)) : a[1] <= a[2] /\ IsAmount(SubSeq(v, a[1], a[2]))}

\* C12: when the normalised text of a closing price cell holds currency
\* amounts, the price assigned is the amount that starts first in the text,
\* taken as far as it goes, with its spaces removed, never one that starts
\* later; when it holds none, the whole normalised text is assigned.
C12_FirstPriceMatch ==
    (t_op = "price" /\ normalise_text(t_text) # None) =>
      LET v == normalise_text(t_text)
      IN IF Amounts(v) = {}
           THEN t_out = v
           ELSE \E a \in Amounts(v) :
                  /\ \A b \in Amounts(v) : a[1] <= b[1]
                  /\ \A b \in Amounts(v) : b[1] = a[1] => b[2] <= a[2]
                  /\ t_out = NoSpaces(SubSeq(v, a[1], a[2]))

\* The cell "$ 5$6" closed: its price is "$5", the first amount without its
\* space, and not "$6".
C12_Witness ==
    /\ t_op = "price"
    /\ t_text = <<"$", " ", "5", "$", "6">>
    /\ t_out = <<"$", "5">>

\* C13 as stated: a price cell that holds "Was $50.00, now $45.79" yields
\* the price "$45.79".
C13_YieldsLaterPrice ==
    (t_op = "price" /\ t_text = WasNow) => t_out = <<"$", "4", "5", ".", "7", "9">>

\* C13, amended: a price cell that holds "Was $50.00, now $45.79" yields the
\* price "$50.00", the first amount in scan order.
C13_YieldsFirstPrice ==
    (t_op = "price" /\ t_text = WasNow) => t_out = <<"$", "5", "0", ".", "0", "0">>

\* The price cell with "Was $50.00, now $45.79" closed and assigned "$50.00".
C13_Witness ==
    /\ t_op = "price"
    /\ t_text = WasNow
    /\ t_out = <<"$", "5", "0", ".", "0", "0">>

\* C14: normalising is idempotent, normalise(normalise(x)) = normalise(x);
\* what it returns is absent or a string that is not empty, has no
\* whitespace at either end and no two whitespace characters in a row; an
\* absent text gives absent.
C14_NormaliseIdempotent ==
    t_op = "normalise" =>
      /\ normalise_text(t_out) = t_out
      /\ t_out # <<>>
      /\ t_out # None =>
           /\ t_out[1] \notin Whitespace
           /\ t_out[Len(t_out)] \notin Whitespace
           /\ \A i \in 1..(Len(t_out) - 1) :
                ~(t_out[i] \in Whitespace /\ t_out[i + 1] \in Whitespace)
      /\ t_text = None => t_out = None

\* " A<tab> 5" was normalised to "A 5".
C14_Witness ==
    /\ t_op = "normalise"
    /\ t_text = <<" ", "A", "\t", " ", "5">>
    /\ t_out = <<"A", " ", "5">>

\* The character a percent escape of the model's URLs stands for.
UnquoteHex(h) ==
    CASE h = <<"2", "6">> -> "&"
      [] h = <<"3", "D">> -> "="
      [] h = <<"2", "B">> -> "+"
      [] h = <<"2", "F">> -> "/"
      [] h = <<"3", "F">> -> "?"
      [] OTHER -> "%"

\* A key or value of a query string, decoded: "+" is a space and "%XX" the
\* character it escapes.
RECURSIVE Unquote(_)
Unquote(s) ==
    IF s = <<>> THEN <<>>
    ELSE IF Head(s) = "+" THEN <<" ">> \o Unquote(Tail(s))
    ELSE IF Head(s) = "%" /\ Len(s) >= 3
      THEN <<UnquoteHex(SubSeq(s, 2, 3))>> \o Unquote(SubSeq(s, 4, Len(s)))
    ELSE <<Head(s)>> \o Unquote(Tail(s))

\* The part of a URL before its query.
BeforeQuery(url) ==
    IF IndexOf(url, "?") = 0 THEN url ELSE SubSeq(url, 1, IndexOf(url, "?") - 1)

\* The query parameters of a URL, decoded, as a set of <<key, value>>.
QueryParameters(url) ==
    IF IndexOf(url, "?") = 0 THEN {}
    ELSE LET fields == Split(SubSeq(url, IndexOf(url, "?") + 1, Len(url)), "&")
         IN {<<Unquote(SubSeq(fields[i], 1, IndexOf(fields[i], "=") - 1)),
               Unquote(SubSeq(fields[i], IndexOf(fields[i], "=") + 1, Len(fields[i])))>> :
               i \in {j \in 1..Len(fields) : IndexOf(fields[j], "=") > 0}}

\* C11: get_products with a category_url fetches exactly category_url,
\* whatever category_id and extra_query_params are; with no category_url and
\* a category_id it fetches the built catalog URL with a query whose pt
\* parameter is category_id and which holds every extra parameter as well,
\* also when the extra parameters hold the key pt themselves.
C11_FetchTarget ==
    (f_op = "get_products" /\ f_url # None) =>
      IF Present(f_category_url)
        THEN f_url = f_category_url
        ELSE /\ BeforeQuery(f_url) = catalog_url(f_vehicle)
             /\ \E q \in QueryParameters(f_url) : q[1] = <<"p", "t">>
             /\ \A q \in QueryParameters(f_url) :
                  q[1] = <<"p", "t">> => q[2] = f_category_id
             /\ \A i \in 1..Len(f_extra.items) :
                  <<f_extra.items[i].key, f_extra.items[i].value>>
                    \in QueryParameters(f_url)

\* C15: a row that opens while a row is open is nesting: a depth marker is
\* pushed and the partial product stays as it is, whether or not the nested
\* row carries a listing class or a part number.
C15_NestedRowOpenIsNesting ==
    [][(p_events' # p_events /\ StartOfRow(last') /\ current_row # NoRow)
         => /\ row_stack' = Append(row_stack, "tr")
            /\ current_row' = current_row]_vars

\* C16: while a matched anchor is open in the category extractor no event
\* replaces current_href or takes text out of the buffer; an anchor that
\* opens meanwhile is ignored, so the anchor close emits the first-opened
\* anchor's url with all the text since it opened.
C16_NestedAnchorIgnored ==
    [][(current_href # None /\ current_href' # None)
         => /\ current_href' = current_href
            /\ Len(c_buffer') >= Len(c_buffer)
            /\ SubSeq(c_buffer', 1, Len(c_buffer)) = c_buffer]_vars

\* C17: the open of a cell with no mapped class name clears the active field
\* and the buffer, and text directly in such a cell, outside any anchor,
\* goes nowhere: not to the buffer, not to the partial product, not to the
\* products.
C17_UnmappedCellDiscards ==
    [][/\ (/\ p_events' # p_events
           /\ last'.kind = "start" /\ last'.tag = "td"
           /\ unmapped_anchors' = 0)
            => current_field' = NoField /\ buffer' = <<>>
       /\ (p_events' # p_events /\ last'.kind = "data" /\ unmapped_anchors = 0)
            => UNCHANGED parser_vars /\ current_field = NoField]_vars

\* In a row whose brand is set, text came directly in a cell with no mapped
\* class and nothing holds it.
C17_Witness ==
    /\ last.kind = "data"
    /\ unmapped_anchors = 0
    /\ current_row # NoRow
    /\ Present(current_row[1].brand)
    /\ current_field = NoField
    /\ buffer = <<>>

\* C18: an anchor in a cell mapped to a field leaves the field active and
\* the buffer intact, at its open and at its close; an anchor close ends the
\* capture only of the part_number field that an anchor activated.
C18_AnchorInMappedCell ==
    [][(/\ p_events' # p_events
        /\ last'.tag = "a"
        /\ p_error' = "None"
        /\ current_field # NoField
        /\ ~provisional)
         => current_field' = current_field /\ buffer' = buffer]_vars

\* C19: current_row is set exactly when the depth stack is not empty,
\* current_field is set only while current_row is, the buffer holds text
\* only while a row is open, and there are no more products than row opens
\* with a listing class or a part number.
C19_RowStateInvariant ==
    /\ (current_row # NoRow) <=> (row_stack # <<>>)
    /\ current_field # NoField => current_row # NoRow
    /\ buffer # <<>> => current_row # NoRow
    /\ Len(products) <= row_opens

\* Two rows opened and each gave a product; a third is open with a field
\* active and text in the buffer.
C19_Witness ==
    /\ Len(products) = 2
    /\ row_opens = 3
    /\ Len(row_stack) = 1
    /\ current_field # NoField
    /\ buffer # <<>>

\* C20: the extractor is deterministic: a second run of a handler on the
\* same event from the same state leaves the same field active, also for a
\* cell whose class names map to two fields.
C20_Deterministic == rerun_field = current_field

=============================================================================
